---- MODULE Spec2Model ----
(***************************************************************************)
(* Model of the duelsplus CLI proxy supervisor (src/src/core/proxy.ts) and *)
(* of the launcher flow that drives it (commands/run.ts, commands/stop.ts, *)
(* the entry point kept in core/auth.ts).                                  *)
(*                                                                         *)
(* One launcher process at a time runs the supervisor; its module-level    *)
(* variables are reset when a new launcher process starts (Restart), while *)
(* the two lock files and the operating system's processes persist.        *)
(***************************************************************************)
EXTENDS Integers, Sequences, FiniteSets, TLC

\* ------------------------------------------------------------------ bounds
MaxPid == 2          \* number of proxy processes ever spawned in a behaviour
MaxPayloadLen == 3   \* longest control-socket payload considered

\* ------------------------------------------------------------------ values
Null == 0                         \* null / undefined of a pid, port or handle
Ports == {25565, 25566}           \* requested/recorded service ports
ControlPorts == {Null, 7}         \* controlPort? of the proxy's lock file
ExitCodes == {0, 1}               \* exit codes of a proxy process
Rejected == -1                    \* proc.exited rejected instead of resolving
BindResults == {"listening", "EADDRINUSE", "EACCES"}  \* outcome of a bind
PIDs == 1..MaxPid

Whitespace == {" "}
Chars == {"o", "k"} \cup Whitespace
OK == <<"o", "k">>

\* all payloads of at most n characters
RECURSIVE SeqsUpTo(_)
SeqsUpTo(n) ==
    IF n = 0 THEN {<< >>}
    ELSE LET S == SeqsUpTo(n - 1)
         IN  S \cup {Append(s, c) : s \in {t \in S : Len(t) = n - 1}, c \in Chars}
Payloads == SeqsUpTo(MaxPayloadLen)

\* lock-file contents: missing, unparsable, or a parsed PidFileData record
NoFile == [kind |-> "none", pid |-> Null, port |-> Null, controlPort |-> Null]
Corrupt == [kind |-> "corrupt", pid |-> Null, port |-> Null, controlPort |-> Null]
PidFileData(pid, port, cp) ==
    [kind |-> "rec", pid |-> pid, port |-> port, controlPort |-> cp]

VARIABLES
    \* --- module state of proxy.ts
    proxyProc,              \* pid of the held Bun subprocess handle, or Null
    isProxyRunning,
    isIntentionalShutdown,
    isAttachedToExisting,
    attachedPid,
    attachedPort,
    \* --- files
    pidFile,                \* <installDir>/proxy.lock (launcher's lock file)
    proxyLock,              \* ~/.duelsplus/proxy.lock (written by the proxy)
    \* --- operating system
    alive,                  \* pids of running proxy processes
    procPort,               \* pid -> port the process listens on
    nextPid,                \* next fresh pid
    \* --- launcher process (run.ts / entry point)
    phase,                  \* "main","run","beta","start","checked","launching",
                            \* "running","killcmd","exited"
    reqPort,                \* --port of this launcher process
    existing,               \* existingProxy returned by checkForExistingProxy
    cmd,                    \* command in progress: "none","stop","sigint","detach","kill"
    \* --- asynchronous tasks of the supervisor
    waiterProc,             \* proc captured by the exit waiter, Null when none
    waiterPc,               \* "off","waiting","done"
    exitCode,               \* code proc.exited resolves with
    pollOn,                 \* attach liveness interval is scheduled
    killPc,                 \* "idle","readLock","handshake","done"
    hs,                     \* socket: "none","connecting","open","closed"
    hsResult,               \* promise: "none","pending","ack","fail"
    timerOn,                \* handshake timeout timer is armed
    waitPc,                 \* "idle","pollAttached","awaitExit","readLock","pollLock","done"
    waitPid,                \* pid awaited/polled by waitForProxyToStop
    detPc,                  \* "idle","mkdir","written"
    detPath,                \* branch detachProxy took: "none","attached","owned"
    detPid,                 \* pid captured by detachProxy
    \* --- observations
    crash,                  \* crash notification emitted by this launcher
    sigSent,                \* pids this launcher sent a termination signal to
    reqSent,                \* number of "shutdown" requests written
    obs,                    \* history needed to state the claims
    \* --- artifact resolver
    cache,                  \* install directory: file name -> "absent", "small" (under
                            \* 50 MB), "truncated" (50 MB or more of an unfinished
                            \* download), "big" (a whole binary)
    latest,                 \* channel -> version of the latest release
    lastRun,                \* record of the last checkForUpdates call
    lastPred,               \* record of the last staleness / beta predicate call
    \* --- entry point and run()
    values,                 \* flags parseArgs found on the command line
    runtimeState,           \* runtimeState.noUpdate / .forceUpdate
    config,                 \* the configuration file as getConfig returns it
    perms,                  \* permissions of the signed-in user
    startup,                \* useBeta of run(), and whether run() purged
    \* --- stdout relay of launchProxy
    stdout,                 \* lines the proxy writes to its stdout
    readPos,                \* number of those lines the relay has read
    logged                  \* payloads of the log events emitted so far

supVars == <<proxyProc, isProxyRunning, isIntentionalShutdown,
             isAttachedToExisting, attachedPid, attachedPort>>
fileVars == <<pidFile, proxyLock>>
osVars == <<alive, procPort, nextPid>>
runVars == <<phase, reqPort, existing, cmd>>
hsVars == <<hs, hsResult, timerOn>>
killVars == <<killPc, hs, hsResult, timerOn>>
waitVars == <<waitPc, waitPid>>
detVars == <<detPc, detPath, detPid>>
taskVars == <<waiterProc, waiterPc, exitCode, pollOn>>
outVars == <<crash, sigSent, reqSent>>
resVars == <<cache, latest, lastRun, lastPred>>
bootVars == <<values, runtimeState, config, perms, startup>>
relayVars == <<stdout, readPos, logged>>
auxVars == <<bootVars, relayVars>>
launcherVars == <<supVars, fileVars, osVars, runVars, killVars, waitVars,
                  detVars, taskVars, outVars, obs, auxVars>>
vars == <<launcherVars, resVars>>

NoCrash == [src |-> "none", pid |-> Null, duringKill |-> FALSE]
NoObs == [killTarget |-> Null,      \* pid tracked when kill() was called
          exitAfterKill |-> FALSE,  \* the owned child exited after kill() was called
          ackSeen |-> FALSE,        \* a payload that is `ok` up to whitespace arrived
          chkFile |-> NoFile,       \* lock file seen by checkForExistingProxy
          chkAlive |-> FALSE,       \* liveness of its pid at that moment
          err |-> "none",           \* error thrown by the last supervisor call
          bind |-> "none",          \* outcome of launchProxy's port probe
          resolved |-> FALSE,       \* launchProxy invoked the artifact resolver
          ctlForeign |-> FALSE,     \* killProxy took its control port from the lock record of a live process other than the tracked one
          exitInDetach |-> FALSE]   \* the process being detached exited before detachProxy returned

\* ------------------------------------------------------- pure functions
\* String.prototype.trim on a payload (data.toString().trim())
RECURSIVE TrimStart(_)
TrimStart(s) ==
    IF s = << >> THEN s
    ELSE IF Head(s) \in Whitespace THEN TrimStart(Tail(s)) ELSE s

RECURSIVE TrimEnd(_)
TrimEnd(s) ==
    IF s = << >> THEN s
    ELSE IF s[Len(s)] \in Whitespace THEN TrimEnd(SubSeq(s, 1, Len(s) - 1)) ELSE s

\* variant: the payload is compared untrimmed
TrimNone(s) == s

Trim(s) == TrimEnd(TrimStart(s))

\* isProcessRunning: process.kill(pid, 0) succeeds; a null pid is rejected
\* by process.kill with a TypeError, which the catch turns into false
isProcessRunning(pid) == pid # Null /\ pid \in alive

\* fs.unlinkSync of the launcher's lock file when it exists
deletePidFile == NoFile

\* readPidFile / readProxyLockFile: null when missing or unparsable
NoData == [kind |-> "null", pid |-> Null, port |-> Null, controlPort |-> Null]
readPidFile == IF pidFile.kind = "rec" THEN pidFile ELSE NoData
readProxyLockFile == IF proxyLock.kind = "rec" THEN proxyLock ELSE NoData

\* isPortFree: the loopback probe binds iff no running proxy listens there
isPortFree(port) == \A p \in alive : procPort[p] # port

\* what server.listen(port) of the probe can end with: the address is in
\* use while a proxy listens there; otherwise another program may hold the
\* port, or the bind may be refused for another reason
BindOutcomes(port) ==
    IF isPortFree(port) THEN BindResults ELSE {"EADDRINUSE"}

\* variant: only EADDRINUSE counts as "not free"
portProbe_onlyInUse(outcome) == outcome # "EADDRINUSE"

\* isPortFree (174-192): true on "listening", false on every "error"
portProbe(outcome) == outcome = "listening"

\* pid the supervisor currently tracks (attached pid, else owned handle)
TrackedPid ==
    IF isAttachedToExisting /\ attachedPid # Null THEN attachedPid ELSE proxyProc

\* a launcher process is past its startup: run() has launched or attached, or
\* the entry point runs the `kill` command
LauncherUp == phase \in {"launching", "running", "killcmd"}
KillInFlight == killPc \in {"readLock", "handshake"}

\* proxyEmitter.emit("crash", ...): the listener of the entry point prints
\* the message and calls process.exit(1)
EmitCrash(src, pid) ==
    /\ crash' = [src |-> src, pid |-> pid, duringKill |-> KillInFlight]
    /\ phase' = "exited"

\* ======================================================================
\* Artifact resolver (proxy.ts 162-168, 194-508) and the startup checks of
\* run() that use it (run.ts 293-309)
\* ======================================================================

\* most unlink calls of one cleanupProxyBinaries run that may fail
MaxUnlinkFailures == 1

PlatformTag == "linux-x64"        \* getPlatform() of this host
Versions == {"1.8.0", "1.9.0"}    \* release versions
Channels == {"stable", "beta"}    \* API_BASE / API_BASE_BETA
\* versions the latest release of a channel ranges over
LatestVersions == [stable |-> Versions, beta |-> {"1.9.0"}]

\* a file name is the sequence of its dash-separated parts
ProxyFileName(version, isBeta, tag) ==
    <<"duelsplus", version>> \o (IF isBeta THEN <<"beta">> ELSE <<>>)
        \o <<"node18", tag>>

\* binaries of this platform (the assets the releases considered carry), one
\* of another platform, and a file that carries the platform tag without
\* following the pattern
Binaries ==
    {ProxyFileName(v, TRUE, PlatformTag) : v \in LatestVersions["beta"]}
        \cup {ProxyFileName(v, FALSE, PlatformTag) : v \in LatestVersions["stable"]}
ForeignFile == ProxyFileName("1.8.0", FALSE, "win-x64")
StrayFile == <<"old", "duelsplus", "1.8.0", "node18", PlatformTag>>
FileNames == Binaries \cup {ForeignFile, StrayFile}
CustomPath == <<"custom">>        \* path.resolve(runtimeState.proxyPath)
NoPath == <<>>                    \* null / nothing returned

\* f.includes(platformTag)
includesTag(f) == \E i \in 1..Len(f) : f[i] = PlatformTag

\* /^duelsplus-(\d+\.\d+\.\d+)(-beta)?-node/ on the file name
parseProxyFilename(f) ==
    IF Len(f) >= 3 /\ f[1] = "duelsplus" /\ f[2] \in Versions
    THEN IF f[3] = "node18"
         THEN [ok |-> TRUE, version |-> f[2], isBeta |-> FALSE]
         ELSE IF f[3] = "beta" /\ Len(f) >= 4 /\ f[4] = "node18"
         THEN [ok |-> TRUE, version |-> f[2], isBeta |-> TRUE]
         ELSE [ok |-> FALSE, version |-> "", isBeta |-> FALSE]
    ELSE [ok |-> FALSE, version |-> "", isBeta |-> FALSE]

\* readdir(installDir)
Present(c) == {f \in FileNames : c[f] # "absent"}
Tagged(c) == {f \in Present(c) : includesTag(f)}

\* getInstalledProxy (318-337): the first entry of the listing that carries
\* the tag and parses; the order of a directory listing is not specified, so
\* any such entry may be the first.  NoPath stands for null.
getInstalledProxy(c) ==
    LET found == {f \in Tagged(c) : parseProxyFilename(f).ok}
    IN  IF found = {} THEN {NoPath} ELSE found

\* sets of files whose unlink may throw during one cleanup
UnlinkFailures(c, keep) ==
    {F \in SUBSET (Tagged(c) \ {keep}) : Cardinality(F) <= MaxUnlinkFailures}

\* variant: the cleanup removes nothing
cleanupProxyBinaries_none(c, keep, failed) == c

\* cleanupProxyBinaries (343-356): every tagged file but `keep` is unlinked,
\* best effort; keep = NoPath is the full purge
cleanupProxyBinaries(c, keep, failed) ==
    [f \in FileNames |->
        IF f # keep /\ includesTag(f) /\ f \notin failed
        THEN "absent" ELSE c[f]]

\* what the release endpoint answers: the request is rejected, an error
\* status, an empty list, a release without an asset for this platform, or
\* the latest release with its asset
FetchOutcomes == {"rejected", "httpError", "empty", "noAsset", "ok"}

\* name of the platform asset of the latest release of a channel
AssetName(useBeta) ==
    ProxyFileName(latest[IF useBeta THEN "beta" ELSE "stable"], useBeta,
                  PlatformTag)

\* downloadArtifact (196-296): the signed URL answers with an error before
\* the file is touched, or the stream breaks after the old file was removed
\* and a part was written, or the whole binary (at least 50 MB) is written
DownloadOutcomes == {"ok", "httpError", "streamError", "lateStreamError"}
downloadArtifact(c, dest, outcome) ==
    CASE outcome = "ok" -> [c EXCEPT ![dest] = "big"]
      [] outcome = "streamError" -> [c EXCEPT ![dest] = "small"]
      [] outcome = "lateStreamError" -> [c EXCEPT ![dest] = "truncated"]
      [] OTHER -> c

\* this call follows a successful call with the same flags, nothing having
\* happened in between
Repeats(mode, useBeta, force) ==
    /\ lastRun.outcome = "path"
    /\ lastRun.mode = mode
    /\ lastRun.useBeta = useBeta
    /\ lastRun.force = force

EmptyCache == [f \in FileNames |-> "absent"]
NoRun == [mode |-> "none", useBeta |-> FALSE, force |-> FALSE,
          fetched |-> FALSE, outcome |-> "none", path |-> NoPath,
          installed |-> NoPath, downloaded |-> FALSE, pruned |-> FALSE,
          unlinkOk |-> TRUE,      \* no unlink of the cleanup threw
          repeat |-> FALSE]       \* same flags as the successful call before

NoPred == [fn |-> "none", installed |-> NoPath, useBeta |-> FALSE,
           eligible |-> FALSE, fetch |-> "none", raised |-> FALSE,
           result |-> FALSE, reason |-> "none", purged |-> FALSE]

\* the parts of the program a specification leaves out: no flag on the
\* command line, the default configuration, a user without permissions, and
\* a proxy that has written nothing
NoFlags == [noUpdate |-> FALSE, lie |-> FALSE, force |-> FALSE]
NoStartup == [useBeta |-> FALSE, purged |-> FALSE]
DefaultConfig == [autoUpdate |-> TRUE, receiveBetaReleases |-> FALSE]
AuxAtRest ==
    /\ values = NoFlags
    /\ runtimeState = [noUpdate |-> FALSE, forceUpdate |-> FALSE]
    /\ config = DefaultConfig
    /\ perms = {}
    /\ startup = NoStartup
    /\ stdout = <<>>
    /\ readPos = 0
    /\ logged = <<>>

\* ------------------------------------------------------------------- Init
Init ==
    /\ proxyProc = Null
    /\ isProxyRunning = FALSE
    /\ isIntentionalShutdown = FALSE
    /\ isAttachedToExisting = FALSE
    /\ attachedPid = Null
    /\ attachedPort = Null
    /\ pidFile \in {NoFile, Corrupt}
    /\ proxyLock \in {NoFile, Corrupt}
    /\ alive = {}
    /\ procPort = [p \in PIDs |-> Null]
    /\ nextPid = 1
    /\ phase = "start"
    /\ reqPort \in Ports
    /\ existing = NoData
    /\ cmd = "none"
    /\ waiterProc = Null
    /\ waiterPc = "off"
    /\ exitCode = 0
    /\ pollOn = FALSE
    /\ killPc = "idle"
    /\ hs = "none"
    /\ hsResult = "none"
    /\ timerOn = FALSE
    /\ waitPc = "idle"
    /\ waitPid = Null
    /\ detPc = "idle"
    /\ detPath = "none"
    /\ detPid = Null
    /\ crash = NoCrash
    /\ sigSent = {}
    /\ reqSent = 0
    /\ obs = NoObs
    /\ cache = EmptyCache
    /\ latest = [c \in Channels |-> "1.9.0"]
    /\ lastRun = NoRun
    /\ lastPred = NoPred
    /\ AuxAtRest

\* ------------------------------------------------ checkForExistingProxy
\* variant: a dead pid yields null but the file is kept
checkForExistingProxy_keepStale(port) ==
    LET pidData == readPidFile IN
    IF pidData = NoData
    THEN /\ existing' = NoData
         /\ UNCHANGED pidFile
    ELSE IF pidData.port # port
    THEN /\ pidFile' = deletePidFile
         /\ existing' = NoData
    ELSE IF ~isProcessRunning(pidData.pid)
    THEN /\ existing' = NoData
         /\ UNCHANGED pidFile
    ELSE /\ existing' = pidData
         /\ UNCHANGED pidFile

\* variant: the recorded port is not compared with the requested one
checkForExistingProxy_anyPort(port) ==
    LET pidData == readPidFile IN
    IF pidData = NoData
    THEN /\ existing' = NoData
         /\ UNCHANGED pidFile
    ELSE IF ~isProcessRunning(pidData.pid)
    THEN /\ pidFile' = deletePidFile
         /\ existing' = NoData
    ELSE /\ existing' = pidData
         /\ UNCHANGED pidFile

\* variant: the record of a live proxy is returned but its file is removed
checkForExistingProxy_consume(port) ==
    LET pidData == readPidFile IN
    IF pidData = NoData
    THEN /\ existing' = NoData
         /\ UNCHANGED pidFile
    ELSE IF pidData.port # port
    THEN /\ pidFile' = deletePidFile
         /\ existing' = NoData
    ELSE IF ~isProcessRunning(pidData.pid)
    THEN /\ pidFile' = deletePidFile
         /\ existing' = NoData
    ELSE /\ existing' = pidData
         /\ pidFile' = deletePidFile

\* proxy.ts 136-160; the value returned is kept in `existing`
checkForExistingProxy(port) ==
    LET pidData == readPidFile IN
    IF pidData = NoData
    THEN /\ existing' = NoData
         /\ UNCHANGED pidFile
    ELSE IF pidData.port # port
    THEN /\ pidFile' = deletePidFile
         /\ existing' = NoData
    ELSE IF ~isProcessRunning(pidData.pid)
    THEN /\ pidFile' = deletePidFile
         /\ existing' = NoData
    ELSE /\ existing' = pidData
         /\ UNCHANGED pidFile

\* run(port): const existingProxy = await checkForExistingProxy(port)
CheckForExisting ==
    /\ phase = "start"
    /\ checkForExistingProxy(reqPort)
    /\ phase' = "checked"
    /\ obs' = [obs EXCEPT !.chkFile = pidFile,
                          !.chkAlive = isProcessRunning(pidFile.pid)]
    /\ UNCHANGED <<supVars, proxyLock, osVars, reqPort, cmd, killVars,
                   waitVars, detVars, taskVars, outVars, resVars, auxVars>>

\* --------------------------------------------------- attachToExistingProxy
\* proxy.ts 594-624, called by run() with the record found
\* variant: the failed attach leaves the stale lock file in place
AttachDead_keepFile ==
    /\ phase = "checked"
    /\ existing # NoData
    /\ ~isProcessRunning(existing.pid)
    /\ phase' = "exited"
    /\ obs' = [obs EXCEPT !.err = "ProcessNotRunning"]
    /\ UNCHANGED <<supVars, fileVars, osVars, reqPort, existing, cmd,
                   killVars, waitVars, detVars, taskVars, outVars, resVars, auxVars>>

AttachDead ==
    /\ phase = "checked"
    /\ existing # NoData
    /\ ~isProcessRunning(existing.pid)
    /\ pidFile' = deletePidFile
    /\ phase' = "exited"          \* throws; run() rethrows; main exits 1
    /\ obs' = [obs EXCEPT !.err = "ProcessNotRunning"]
    /\ UNCHANGED <<supVars, proxyLock, osVars, reqPort, existing, cmd,
                   killVars, waitVars, detVars, taskVars, outVars, resVars, auxVars>>

\* variant: the attach does not record the port
Attach_portless ==
    /\ phase = "checked"
    /\ existing # NoData
    /\ isProcessRunning(existing.pid)
    /\ isProxyRunning' = TRUE
    /\ isAttachedToExisting' = TRUE
    /\ attachedPid' = existing.pid
    /\ attachedPort' = Null
    /\ proxyProc' = Null
    /\ pollOn' = TRUE
    /\ phase' = "running"
    /\ UNCHANGED <<isIntentionalShutdown, fileVars, osVars, reqPort, existing,
                   cmd, killVars, waitVars, detVars, waiterProc, waiterPc,
                   exitCode, outVars, obs, resVars, auxVars>>

Attach ==
    /\ phase = "checked"
    /\ existing # NoData
    /\ isProcessRunning(existing.pid)
    /\ isProxyRunning' = TRUE
    /\ isAttachedToExisting' = TRUE
    /\ attachedPid' = existing.pid
    /\ attachedPort' = existing.port
    /\ proxyProc' = Null
    /\ pollOn' = TRUE
    /\ phase' = "running"         \* startInteractivePrompt
    /\ UNCHANGED <<isIntentionalShutdown, fileVars, osVars, reqPort, existing,
                   cmd, killVars, waitVars, detVars, waiterProc, waiterPc,
                   exitCode, outVars, obs, resVars, auxVars>>

\* variant: the poll reports the death but leaves the lock file
PollTick_keepFile ==
    /\ LauncherUp
    /\ pollOn
    /\ IF isAttachedToExisting /\ attachedPid # Null
       THEN /\ ~isProcessRunning(attachedPid)
            /\ isProxyRunning' = FALSE
            /\ isAttachedToExisting' = FALSE
            /\ attachedPid' = Null
            /\ attachedPort' = Null
            /\ pollOn' = FALSE
            /\ EmitCrash("poll", attachedPid)
            /\ UNCHANGED <<proxyProc, isIntentionalShutdown, pidFile>>
       ELSE /\ pollOn' = FALSE
            /\ UNCHANGED <<supVars, pidFile, crash, phase>>
    /\ UNCHANGED <<proxyLock, osVars, reqPort, existing, cmd, killVars,
                   waitVars, detVars, waiterProc, waiterPc, exitCode, sigSent,
                   reqSent, obs, resVars, auxVars>>

\* liveness poll, setInterval callback of attachToExistingProxy (607-622)
PollTick ==
    /\ LauncherUp
    /\ pollOn
    /\ IF isAttachedToExisting /\ attachedPid # Null
       THEN /\ ~isProcessRunning(attachedPid)
            /\ isProxyRunning' = FALSE
            /\ isAttachedToExisting' = FALSE
            /\ attachedPid' = Null
            /\ attachedPort' = Null
            /\ pollOn' = FALSE
            /\ pidFile' = deletePidFile
            /\ EmitCrash("poll", attachedPid)
            /\ UNCHANGED <<proxyProc, isIntentionalShutdown>>
       ELSE /\ pollOn' = FALSE
            /\ UNCHANGED <<supVars, pidFile, crash, phase>>
    /\ UNCHANGED <<proxyLock, osVars, reqPort, existing, cmd, killVars,
                   waitVars, detVars, waiterProc, waiterPc, exitCode, sigSent,
                   reqSent, obs, resVars, auxVars>>

\* ------------------------------------------------------------ launchProxy
\* proxy.ts 510-592; the artifact resolver is taken to succeed
LaunchPortInUse ==
    /\ phase = "checked"
    /\ existing = NoData
    /\ \E o \in BindOutcomes(reqPort) :
        /\ ~portProbe(o)
        /\ obs' = [obs EXCEPT !.err = "PortInUse", !.bind = o]
    /\ phase' = "exited"          \* throws; main prints the error and exits 1
    /\ UNCHANGED <<supVars, fileVars, osVars, reqPort, existing, cmd,
                   killVars, waitVars, detVars, taskVars, outVars, resVars, auxVars>>

Launch ==
    /\ phase = "checked"
    /\ existing = NoData
    /\ \E o \in BindOutcomes(reqPort) :
        /\ portProbe(o)
        /\ obs' = [obs EXCEPT !.bind = o, !.resolved = TRUE]  \* checkForUpdates
    /\ nextPid <= MaxPid
    /\ alive' = alive \cup {nextPid}                 \* Bun.spawn
    /\ procPort' = [procPort EXCEPT ![nextPid] = reqPort]
    /\ nextPid' = nextPid + 1
    /\ proxyProc' = nextPid
    /\ isProxyRunning' = TRUE
    /\ isIntentionalShutdown' = FALSE
    /\ isAttachedToExisting' = FALSE
    /\ attachedPid' = Null
    /\ attachedPort' = Null
    /\ waiterProc' = nextPid
    /\ waiterPc' = "waiting"
    /\ phase' = "launching"       \* run() awaits proxyReadyPromise
    /\ UNCHANGED <<fileVars, exitCode, reqPort, existing, cmd, killVars,
                   waitVars, detVars, pollOn, outVars, resVars, auxVars>>

\* the stdout relay delivers the ready line; run() starts the prompt
ProxyReady ==
    /\ phase = "launching"
    /\ waiterProc \in alive
    /\ phase' = "running"
    /\ UNCHANGED <<supVars, fileVars, osVars, reqPort, existing, cmd,
                   killVars, waitVars, detVars, taskVars, outVars, obs,
                   resVars, auxVars>>

\* variant: the waiter reports every unintended exit, whatever its code
ExitWaiter_anyCode ==
    /\ LauncherUp
    /\ waiterPc = "waiting"
    /\ waiterProc \notin alive
    /\ waiterPc' = "done"
    /\ isProxyRunning' = FALSE
    /\ pidFile' = deletePidFile
    /\ IF ~isIntentionalShutdown
       THEN EmitCrash("exit", waiterProc)
       ELSE UNCHANGED <<crash, phase>>
    /\ UNCHANGED <<proxyProc, isIntentionalShutdown, isAttachedToExisting,
                   attachedPid, attachedPort, proxyLock, osVars, reqPort,
                   existing, cmd, killVars, waitVars, detVars, waiterProc,
                   exitCode, pollOn, sigSent, reqSent, obs, resVars, auxVars>>

\* variant: the waiter clears the flag but leaves the lock file
ExitWaiter_keepFile ==
    /\ LauncherUp
    /\ waiterPc = "waiting"
    /\ waiterProc \notin alive
    /\ waiterPc' = "done"
    /\ isProxyRunning' = FALSE
    /\ pidFile' = pidFile
    /\ IF exitCode # 0 /\ ~isIntentionalShutdown
       THEN EmitCrash("exit", waiterProc)
       ELSE UNCHANGED <<crash, phase>>
    /\ UNCHANGED <<proxyProc, isIntentionalShutdown, isAttachedToExisting,
                   attachedPid, attachedPort, proxyLock, osVars, reqPort,
                   existing, cmd, killVars, waitVars, detVars, waiterProc,
                   exitCode, pollOn, sigSent, reqSent, obs, resVars, auxVars>>

\* exit waiter of launchProxy (571-591): proc.exited resolved with a code
\* (try branch) or rejected (catch branch)
ExitWaiter ==
    /\ LauncherUp
    /\ waiterPc = "waiting"
    /\ waiterProc \notin alive
    /\ waiterPc' = "done"
    /\ isProxyRunning' = FALSE
    /\ pidFile' = deletePidFile
    /\ IF exitCode # Rejected
       THEN IF exitCode # 0 /\ ~isIntentionalShutdown
            THEN EmitCrash("exit", waiterProc)
            ELSE UNCHANGED <<crash, phase>>
       ELSE IF ~isIntentionalShutdown
            THEN EmitCrash("exit", waiterProc)
            ELSE UNCHANGED <<crash, phase>>
    /\ UNCHANGED <<proxyProc, isIntentionalShutdown, isAttachedToExisting,
                   attachedPid, attachedPort, proxyLock, osVars, reqPort,
                   existing, cmd, killVars, waitVars, detVars, waiterProc,
                   exitCode, pollOn, sigSent, reqSent, obs, resVars, auxVars>>

\* ----------------------------------------------------------------- killProxy
\* payloads that are `ok` surrounded by whitespace only
IsAckPayload(p) ==
    \E i \in 0..Len(p) :
        /\ i + 2 <= Len(p)
        /\ \A n \in 1..i : p[n] \in Whitespace
        /\ p[i + 1] = "o"
        /\ p[i + 2] = "k"
        /\ \A n \in (i + 3)..Len(p) : p[n] \in Whitespace

\* variant: the flag is not raised before the first await
killProxy_unflagged ==
    /\ UNCHANGED isIntentionalShutdown
    /\ killPc' = "readLock"

\* line 627, up to the first await
killProxy_begin ==
    /\ isIntentionalShutdown' = TRUE
    /\ killPc' = "readLock"

\* variant: nothing is signalled
killFallback_none ==
    /\ killPc' = "done"
    /\ UNCHANGED <<supVars, pidFile, sigSent>>

\* lines 645-687: forceful kill of the attached pid, else of the held handle
killFallback ==
    /\ killPc' = "done"
    /\ IF isAttachedToExisting /\ attachedPid # Null
       THEN /\ sigSent' = sigSent \cup {attachedPid}
            /\ isProxyRunning' = FALSE
            /\ isAttachedToExisting' = FALSE
            /\ attachedPid' = Null
            /\ attachedPort' = Null
            /\ pidFile' = deletePidFile
            /\ UNCHANGED <<proxyProc, isIntentionalShutdown>>
       ELSE IF proxyProc # Null
       THEN /\ sigSent' = sigSent \cup {proxyProc}
            /\ pidFile' = deletePidFile
            /\ UNCHANGED supVars
       ELSE UNCHANGED <<supVars, pidFile, sigSent>>

\* lines 631-633: the lock file has been read; start the handshake or fall back
KillReadLock ==
    /\ LauncherUp
    /\ killPc = "readLock"
    /\ IF readProxyLockFile.controlPort # Null
       THEN /\ killPc' = "handshake"
            /\ hs' = "connecting"         \* new net.Socket(); socket.connect
            /\ hsResult' = "pending"
            /\ timerOn' = TRUE            \* setTimeout(..., timeout)
            /\ obs' = [obs EXCEPT !.ctlForeign =
                         /\ TrackedPid # Null
                         /\ readProxyLockFile.pid \in alive
                         /\ readProxyLockFile.pid # TrackedPid]
            /\ UNCHANGED <<supVars, pidFile, sigSent>>
       ELSE /\ killFallback
            /\ UNCHANGED <<hsVars, obs>>
    /\ UNCHANGED <<proxyLock, osVars, runVars, waitVars, detVars, taskVars,
                   crash, reqSent, resVars, auxVars>>

\* resolve(v) of the handshake promise: only the first call settles it
Resolve(v) == IF hsResult = "pending" THEN v ELSE hsResult

\* connect callback (113-115): socket.write("shutdown")
HsConnect ==
    /\ LauncherUp
    /\ hs = "connecting"
    /\ hs' = "open"
    /\ reqSent' = reqSent + 1
    /\ UNCHANGED <<supVars, fileVars, osVars, runVars, killPc, hsResult,
                   timerOn, waitVars, detVars, taskVars, crash, sigSent, obs,
                   resVars, auxVars>>

\* "data" listener (117-123)
HsData ==
    /\ LauncherUp
    /\ hs = "open"
    /\ \E p \in Payloads :
        /\ timerOn' = FALSE
        /\ IF Trim(p) = OK
           THEN /\ hs' = "closed"         \* socket.destroy()
                /\ hsResult' = Resolve("ack")
           ELSE UNCHANGED <<hs, hsResult>>
        /\ obs' = [obs EXCEPT !.ackSeen = @ \/ IsAckPayload(p)]
    /\ UNCHANGED <<supVars, fileVars, osVars, runVars, killPc, waitVars,
                   detVars, taskVars, outVars, resVars, auxVars>>

\* "error" listener (125-128); the socket closes afterwards
HsError ==
    /\ LauncherUp
    /\ hs \in {"connecting", "open"}
    /\ timerOn' = FALSE
    /\ hsResult' = Resolve("fail")
    /\ hs' = "closed"
    /\ UNCHANGED <<supVars, fileVars, osVars, runVars, killPc, waitVars,
                   detVars, taskVars, outVars, obs, resVars, auxVars>>

\* "close" listener (130-132): the peer ended the connection
HsClose ==
    /\ LauncherUp
    /\ hs = "open"
    /\ timerOn' = FALSE
    /\ hs' = "closed"
    /\ UNCHANGED <<supVars, fileVars, osVars, runVars, killPc, hsResult,
                   waitVars, detVars, taskVars, outVars, obs, resVars, auxVars>>

\* timeout callback (108-111)
HsTimeout ==
    /\ LauncherUp
    /\ timerOn
    /\ timerOn' = FALSE
    /\ hs' = "closed"                     \* socket.destroy()
    /\ hsResult' = Resolve("fail")
    /\ UNCHANGED <<supVars, fileVars, osVars, runVars, killPc, waitVars,
                   detVars, taskVars, outVars, obs, resVars, auxVars>>

\* variant: no return after an acknowledged shutdown
killProxy_fallthrough(success) == killFallback

\* variant: the acknowledged shutdown clears the attached flag only
killProxy_keepAttachedPid(success) ==
    IF success
    THEN /\ isAttachedToExisting' = FALSE
         /\ killPc' = "done"
         /\ UNCHANGED <<proxyProc, isProxyRunning, isIntentionalShutdown,
                        attachedPid, attachedPort, pidFile, sigSent>>
    ELSE killFallback

\* lines 634-643 and the fall-through to 645
killProxy_afterHandshake(success) ==
    IF success
    THEN /\ isAttachedToExisting' = FALSE
         /\ attachedPid' = Null
         /\ attachedPort' = Null
         /\ killPc' = "done"
         /\ UNCHANGED <<proxyProc, isProxyRunning, isIntentionalShutdown,
                        pidFile, sigSent>>
    ELSE killFallback

KillResume ==
    /\ LauncherUp
    /\ killPc = "handshake"
    /\ hsResult \in {"ack", "fail"}
    /\ killProxy_afterHandshake(hsResult = "ack")
    /\ UNCHANGED <<proxyLock, osVars, runVars, hsVars, waitVars, detVars,
                   taskVars, crash, reqSent, obs, resVars, auxVars>>

\* -------------------------------------------------------- waitForProxyToStop
\* lines 721-748, up to the first await
waitForProxyToStop_begin ==
    IF isAttachedToExisting /\ attachedPid # Null
    THEN /\ waitPc' = "pollAttached"
         /\ UNCHANGED waitPid
    ELSE IF proxyProc # Null
    THEN /\ waitPc' = "awaitExit"
         /\ waitPid' = proxyProc
    ELSE /\ waitPc' = "readLock"
         /\ UNCHANGED waitPid

\* 100 ms interval of the attached branch (725-731); reads attachedPid anew
WaitPollAttached ==
    /\ LauncherUp
    /\ waitPc = "pollAttached"
    /\ ~isProcessRunning(attachedPid)
    /\ isProxyRunning' = FALSE
    /\ waitPc' = "done"
    /\ UNCHANGED <<proxyProc, isIntentionalShutdown, isAttachedToExisting,
                   attachedPid, attachedPort, fileVars, osVars, runVars,
                   killVars, waitPid, detVars, taskVars, outVars, obs,
                   resVars, auxVars>>

\* await proxyProc.exited (735-745); the exit waiter awaits the same
\* promise since launchProxy, so its continuation runs first
WaitExited ==
    /\ LauncherUp
    /\ waitPc = "awaitExit"
    /\ waitPid \notin alive
    /\ ~(waiterPc = "waiting" /\ waiterProc = waitPid)
    /\ isProxyRunning' = FALSE
    /\ proxyProc' = Null
    /\ waitPc' = "done"
    /\ UNCHANGED <<isIntentionalShutdown, isAttachedToExisting, attachedPid,
                   attachedPort, fileVars, osVars, runVars, killVars, waitPid,
                   detVars, taskVars, outVars, obs, resVars, auxVars>>

\* variant: the launcher's own lock file is consulted
WaitReadLock_pidFile ==
    /\ LauncherUp
    /\ waitPc = "readLock"
    /\ IF readPidFile.pid # Null
       THEN /\ waitPc' = "pollLock"
            /\ waitPid' = readPidFile.pid
            /\ UNCHANGED isProxyRunning
       ELSE /\ waitPc' = "done"
            /\ isProxyRunning' = FALSE
            /\ UNCHANGED waitPid
    /\ UNCHANGED <<proxyProc, isIntentionalShutdown, isAttachedToExisting,
                   attachedPid, attachedPort, fileVars, osVars, runVars,
                   killVars, detVars, taskVars, outVars, obs, resVars, auxVars>>

\* lines 748-762: no handle, no attached pid
WaitReadLock ==
    /\ LauncherUp
    /\ waitPc = "readLock"
    /\ IF readProxyLockFile.pid # Null
       THEN /\ waitPc' = "pollLock"
            /\ waitPid' = readProxyLockFile.pid
            /\ UNCHANGED isProxyRunning
       ELSE /\ waitPc' = "done"
            /\ isProxyRunning' = FALSE
            /\ UNCHANGED waitPid
    /\ UNCHANGED <<proxyProc, isIntentionalShutdown, isAttachedToExisting,
                   attachedPid, attachedPort, fileVars, osVars, runVars,
                   killVars, detVars, taskVars, outVars, obs, resVars, auxVars>>

\* 100 ms interval on lockData.pid (751-757)
WaitPollLock ==
    /\ LauncherUp
    /\ waitPc = "pollLock"
    /\ ~isProcessRunning(waitPid)
    /\ isProxyRunning' = FALSE
    /\ waitPc' = "done"
    /\ UNCHANGED <<proxyProc, isIntentionalShutdown, isAttachedToExisting,
                   attachedPid, attachedPort, fileVars, osVars, runVars,
                   killVars, waitPid, detVars, taskVars, outVars, obs,
                   resVars, auxVars>>

\* --------------------------------------------------------------- detachProxy
\* variant: detach without the running-flag check of line 690
DetachBegin_unguarded ==
    /\ phase = "running"
    /\ cmd = "none"
    /\ IF isAttachedToExisting /\ attachedPid # Null
       THEN /\ detPath' = "attached"
            /\ detPid' = attachedPid
       ELSE /\ proxyProc # Null
            /\ detPath' = "owned"
            /\ detPid' = proxyProc
    /\ detPc' = "mkdir"
    /\ cmd' = "detach"
    /\ UNCHANGED <<supVars, fileVars, osVars, phase, reqPort, existing,
                   killVars, waitVars, taskVars, outVars, obs, resVars, auxVars>>

\* lines 689-712 up to the await of savePidFile; handleDetach(port) passes
\* the launcher's port
DetachBegin ==
    /\ phase = "running"
    /\ cmd = "none"
    /\ isProxyRunning
    /\ IF isAttachedToExisting /\ attachedPid # Null
       THEN /\ detPath' = "attached"
            /\ detPid' = attachedPid
       ELSE /\ proxyProc # Null
            /\ detPath' = "owned"
            /\ detPid' = proxyProc
    /\ detPc' = "mkdir"
    /\ cmd' = "detach"
    /\ UNCHANGED <<supVars, fileVars, osVars, phase, reqPort, existing,
                   killVars, waitVars, taskVars, outVars, obs, resVars, auxVars>>

\* lines 690-692 / 705-707: nothing to detach; handleDetach reports the
\* failure and the prompt goes on
DetachRejected ==
    /\ phase = "running"
    /\ cmd = "none"
    /\ \/ ~isProxyRunning
       \/ /\ ~(isAttachedToExisting /\ attachedPid # Null)
          /\ proxyProc = Null
    /\ obs' = [obs EXCEPT !.err = "NothingToDetach"]
    /\ UNCHANGED <<supVars, fileVars, osVars, runVars, killVars, waitVars,
                   detVars, taskVars, outVars, resVars, auxVars>>

\* variant: the record carries the attached port instead of the argument
savePidFile_attachedPort(pid, port) ==
    pidFile' = PidFileData(pid, attachedPort, Null)

\* savePidFile (41-46): Bun.write of {pid, port}
savePidFile(pid, port) == pidFile' = PidFileData(pid, port, Null)

DetachWrite ==
    /\ LauncherUp
    /\ detPc = "mkdir"
    /\ savePidFile(detPid, reqPort)
    /\ detPc' = "written"
    /\ UNCHANGED <<supVars, proxyLock, osVars, runVars, killVars, waitVars,
                   detPath, detPid, taskVars, outVars, obs, resVars, auxVars>>

\* variant: the attached branch forgets to clear the attached state
DetachEnd_keepAttached ==
    /\ LauncherUp
    /\ detPc = "written"
    /\ IF detPath = "attached"
       THEN /\ isProxyRunning' = FALSE
            /\ UNCHANGED <<proxyProc, isIntentionalShutdown,
                           isAttachedToExisting, attachedPid, attachedPort>>
       ELSE /\ proxyProc' = Null
            /\ isProxyRunning' = FALSE
            /\ UNCHANGED <<isIntentionalShutdown, isAttachedToExisting,
                           attachedPid, attachedPort>>
    /\ detPc' = "idle"
    /\ phase' = "exited"
    /\ UNCHANGED <<fileVars, osVars, reqPort, existing, cmd, killVars,
                   waitVars, detPath, detPid, taskVars, outVars, obs, resVars, auxVars>>

\* lines 698-702 / 713-718, then handleDetach returns true and the prompt
\* closes readline and calls process.exit(0)
DetachEnd ==
    /\ LauncherUp
    /\ detPc = "written"
    /\ IF detPath = "attached"
       THEN /\ isProxyRunning' = FALSE
            /\ isAttachedToExisting' = FALSE
            /\ attachedPid' = Null
            /\ attachedPort' = Null
            /\ UNCHANGED <<proxyProc, isIntentionalShutdown>>
       ELSE /\ proxyProc' = Null
            /\ isProxyRunning' = FALSE
            /\ UNCHANGED <<isIntentionalShutdown, isAttachedToExisting,
                           attachedPid, attachedPort>>
    /\ detPc' = "idle"
    /\ phase' = "exited"
    /\ UNCHANGED <<fileVars, osVars, reqPort, existing, cmd, killVars,
                   waitVars, detPath, detPid, taskVars, outVars, obs, resVars, auxVars>>

\* -------------------------------------------------- commands and signals
\* handleStop (stop.ts 4-8): await killProxy()
CmdStop ==
    /\ phase = "running"
    /\ cmd = "none"
    /\ killPc = "idle"
    /\ cmd' = "stop"
    /\ killProxy_begin
    /\ obs' = [obs EXCEPT !.killTarget = TrackedPid]
    /\ UNCHANGED <<proxyProc, isProxyRunning, isAttachedToExisting,
                   attachedPid, attachedPort, fileVars, osVars, phase, reqPort,
                   existing, hsVars, waitVars, detVars, taskVars, outVars,
                   resVars, auxVars>>

\* handleStop: await waitForProxyToStop() once killProxy() has returned
StopWait ==
    /\ LauncherUp
    /\ cmd = "stop"
    /\ killPc = "done"
    /\ waitPc = "idle"
    /\ waitForProxyToStop_begin
    /\ UNCHANGED <<supVars, fileVars, osVars, runVars, killVars, detVars,
                   taskVars, outVars, obs, resVars, auxVars>>

\* SIGINT handler of the entry point: killProxy() is not awaited, so
\* waitForProxyToStop() starts while killProxy() is at its first await
Sigint ==
    /\ LauncherUp
    /\ cmd = "none"
    /\ killPc = "idle"
    /\ cmd' = "sigint"
    /\ killProxy_begin
    /\ waitForProxyToStop_begin
    /\ obs' = [obs EXCEPT !.killTarget = TrackedPid]
    /\ UNCHANGED <<proxyProc, isProxyRunning, isAttachedToExisting,
                   attachedPid, attachedPort, fileVars, osVars, phase, reqPort,
                   existing, hsVars, detVars, taskVars, outVars, resVars, auxVars>>

\* `kill` command of the entry point (auth.ts 287-291), run instead of
\* run(port): killProxy() is not awaited, waitForProxyToStop() starts while
\* killProxy() is at its first await; nothing is launched or attached
KillCommand ==
    /\ phase = "start"
    /\ killPc = "idle"
    /\ phase' = "killcmd"
    /\ cmd' = "kill"
    /\ killProxy_begin
    /\ waitForProxyToStop_begin
    /\ obs' = [obs EXCEPT !.killTarget = TrackedPid]
    /\ UNCHANGED <<proxyProc, isProxyRunning, isAttachedToExisting,
                   attachedPid, attachedPort, fileVars, osVars, reqPort,
                   existing, hsVars, detVars, taskVars, outVars, resVars, auxVars>>

\* process.exit(0) after waitForProxyToStop() returned
CmdExit ==
    /\ LauncherUp
    /\ cmd \in {"stop", "sigint", "kill"}
    /\ waitPc = "done"
    /\ phase' = "exited"
    /\ UNCHANGED <<supVars, fileVars, osVars, reqPort, existing, cmd,
                   killVars, waitVars, detVars, taskVars, outVars, obs,
                   resVars, auxVars>>

\* a new launcher process: module state as initialised at lines 17-23
Restart ==
    /\ phase = "exited"
    /\ proxyProc' = Null
    /\ isProxyRunning' = FALSE
    /\ isIntentionalShutdown' = FALSE
    /\ isAttachedToExisting' = FALSE
    /\ attachedPid' = Null
    /\ attachedPort' = Null
    /\ phase' = "start"
    /\ reqPort' \in Ports
    /\ existing' = NoData
    /\ cmd' = "none"
    /\ waiterProc' = Null
    /\ waiterPc' = "off"
    /\ exitCode' = 0
    /\ pollOn' = FALSE
    /\ killPc' = "idle"
    /\ hs' = "none"
    /\ hsResult' = "none"
    /\ timerOn' = FALSE
    /\ waitPc' = "idle"
    /\ waitPid' = Null
    /\ detPc' = "idle"
    /\ detPath' = "none"
    /\ detPid' = Null
    /\ crash' = NoCrash
    /\ sigSent' = {}
    /\ reqSent' = 0
    /\ obs' = NoObs
    /\ UNCHANGED <<fileVars, osVars, resVars, auxVars>>

\* ------------------------------------------------------------ environment
\* Steps of the environment commute with Restart, which reads neither the
\* files nor the processes; they are taken once the next launcher process
\* has started rather than while none is running.
\* a proxy process exits, on its own or after a signal or shutdown request;
\* the exit code reaches the launcher only through the handle it holds
ProcDies ==
    \E pid \in alive :
        /\ phase # "exited"
        /\ alive' = alive \ {pid}
        /\ IF LauncherUp /\ pid = waiterProc
           THEN /\ exitCode' \in ExitCodes \cup {Rejected}
                /\ obs' = [obs EXCEPT
                       !.exitAfterKill = killPc # "idle",
                       !.exitInDetach = @ \/ (detPc # "idle" /\ pid = detPid)]
           ELSE /\ UNCHANGED exitCode
                /\ obs' = [obs EXCEPT
                       !.exitInDetach = @ \/ (detPc # "idle" /\ pid = detPid)]
        /\ UNCHANGED <<supVars, fileVars, procPort, nextPid, runVars, killVars,
                       waitVars, detVars, waiterProc, waiterPc, pollOn,
                       outVars, resVars, auxVars>>

\* a running proxy writes its own lock file
ProxyLockWrite ==
    \E pid \in alive, cp \in ControlPorts :
        /\ phase # "exited"
        /\ proxyLock' = PidFileData(pid, procPort[pid], cp)
        /\ proxyLock' # proxyLock
        /\ UNCHANGED <<supVars, pidFile, osVars, runVars, killVars, waitVars,
                       detVars, taskVars, outVars, obs, resVars, auxVars>>

\* the proxy removes its lock file when it shuts down
ProxyLockRemove ==
    /\ phase # "exited"
    /\ proxyLock.kind = "rec"
    /\ proxyLock' = NoFile
    /\ UNCHANGED <<supVars, pidFile, osVars, runVars, killVars, waitVars,
                   detVars, taskVars, outVars, obs, resVars, auxVars>>

Next ==
    \/ CheckForExisting
    \/ AttachDead
    \/ Attach
    \/ PollTick
    \/ LaunchPortInUse
    \/ Launch
    \/ ProxyReady
    \/ ExitWaiter
    \/ KillReadLock
    \/ HsConnect
    \/ HsData
    \/ HsError
    \/ HsClose
    \/ HsTimeout
    \/ KillResume
    \/ WaitPollAttached
    \/ WaitExited
    \/ WaitReadLock
    \/ WaitPollLock
    \/ DetachBegin
    \/ DetachRejected
    \/ DetachWrite
    \/ DetachEnd
    \/ CmdStop
    \/ StopWait
    \/ Sigint
    \/ KillCommand
    \/ CmdExit
    \/ Restart
    \/ ProcDies
    \/ ProxyLockWrite
    \/ ProxyLockRemove

Spec == Init /\ [][Next]_vars


\* ---------------------------------------------- checkForUpdates and startup
\* variant: the download decision ignores the size of the cached file
needsDownload_noSizeCheck(exists, force, small, installed, asset) ==
    ~exists \/ force \/ (installed # NoPath /\ installed # asset)

\* variant: the download decision ignores the installed file's name
needsDownload_noNameCheck(exists, force, small, installed, asset) ==
    ~exists \/ force \/ (exists /\ small)

\* variant: every run downloads
needsDownload_always(exists, force, small, installed, asset) == TRUE

\* lines 465-495: needsDownload of checkForUpdates
needsDownload(exists, force, small, installed, asset) ==
    LET bySizeOrFlag == ~exists \/ force \/ (exists /\ small)
    IN  IF ~bySizeOrFlag
        THEN installed # NoPath /\ installed # asset
        ELSE TRUE

\* variant: the override path prunes the cache like a normal run
ResolveOverride_pruning ==
    \E exists \in BOOLEAN :
        /\ cache' = cleanupProxyBinaries(cache, NoPath, {})
        /\ lastRun' = [NoRun EXCEPT
               !.mode = "override",
               !.outcome = IF exists THEN "path" ELSE "CustomNotFound",
               !.path = IF exists THEN CustomPath ELSE NoPath,
               !.repeat = Repeats("override", FALSE, FALSE)]
        /\ lastPred' = NoPred
        /\ UNCHANGED <<latest, launcherVars>>

\* checkForUpdates with runtimeState.proxyPath set (418-427)
ResolveOverride ==
    \E exists \in BOOLEAN :
        /\ lastRun' = [NoRun EXCEPT
               !.mode = "override",
               !.outcome = IF exists THEN "path" ELSE "CustomNotFound",
               !.path = IF exists THEN CustomPath ELSE NoPath,
               !.repeat = Repeats("override", FALSE, FALSE)]
        /\ lastPred' = NoPred
        /\ UNCHANGED <<cache, latest, launcherVars>>

\* lines 438-452: the release list cannot be used; thrown before the
\* noUpdate test, so in offline mode as well
RunFetchFails(noUpdate, fetch) ==
    lastRun' = [NoRun EXCEPT
        !.mode = IF noUpdate THEN "offline" ELSE "normal",
        !.fetched = TRUE,
        !.outcome = CASE fetch = "rejected" -> "FetchRejected"
                      [] fetch = "httpError" -> "FetchFailed"
                      [] fetch = "empty" -> "NoReleaseFound"
                      [] OTHER -> "NoAssetForPlatform"]

ResolveFetchFails ==
    \E noUpdate \in BOOLEAN, fetch \in FetchOutcomes \ {"ok"} :
        /\ RunFetchFails(noUpdate, fetch)
        /\ lastPred' = NoPred
        /\ UNCHANGED <<cache, latest, launcherVars>>

\* variant: offline mode fetches the binary when none is cached
ResolveOffline_downloading ==
    \E useBeta \in BOOLEAN :
        /\ IF Tagged(cache) = {}
           THEN /\ cache' = downloadArtifact(cache, AssetName(useBeta), "ok")
                /\ lastRun' = [NoRun EXCEPT
                       !.mode = "offline", !.useBeta = useBeta,
                       !.fetched = TRUE,
                       !.outcome = "path", !.path = AssetName(useBeta),
                       !.downloaded = TRUE,
                       !.repeat = Repeats("offline", useBeta, FALSE)]
           ELSE /\ \E f \in Tagged(cache) :
                    lastRun' = [NoRun EXCEPT
                        !.mode = "offline", !.useBeta = useBeta,
                        !.fetched = TRUE,
                        !.outcome = "path", !.path = f,
                        !.repeat = Repeats("offline", useBeta, FALSE)]
                /\ UNCHANGED cache
        /\ lastPred' = NoPred
        /\ UNCHANGED <<latest, launcherVars>>

\* lines 454-463: runtimeState.noUpdate; files.find(f => f.includes(tag))
RunOffline(useBeta) ==
    IF Tagged(cache) = {}
    THEN lastRun' = [NoRun EXCEPT
             !.mode = "offline", !.useBeta = useBeta,
             !.fetched = TRUE,
             !.outcome = "NoCachedBinary",
             !.repeat = Repeats("offline", useBeta, FALSE)]
    ELSE \E f \in Tagged(cache) :
             lastRun' = [NoRun EXCEPT
                 !.mode = "offline", !.useBeta = useBeta,
                 !.fetched = TRUE,
                 !.outcome = "path", !.path = f,
                 !.repeat = Repeats("offline", useBeta, FALSE)]

ResolveOffline ==
    \E useBeta \in BOOLEAN :
        /\ RunOffline(useBeta)
        /\ lastPred' = NoPred
        /\ UNCHANGED <<cache, latest, launcherVars>>

\* lines 465-508: the normal run; a failed download throws before the
\* cleanup
RunNormal(useBeta, force) ==
    \E installed \in getInstalledProxy(cache), dl \in DownloadOutcomes :
        LET asset == AssetName(useBeta)
            exists == cache[asset] # "absent"
            small == cache[asset] = "small"
            needs == needsDownload(exists, force, small, installed, asset)
            got == IF needs THEN downloadArtifact(cache, asset, dl) ELSE cache
            run == [NoRun EXCEPT
                       !.mode = "normal", !.useBeta = useBeta,
                       !.force = force, !.fetched = TRUE,
                       !.installed = installed, !.downloaded = needs,
                       !.repeat = Repeats("normal", useBeta, force)]
        IN  /\ ~needs => dl = "ok"
            /\ IF needs /\ dl # "ok"
               THEN /\ cache' = got
                    /\ lastRun' = [run EXCEPT !.outcome = "DownloadFailed"]
               ELSE \E failed \in UnlinkFailures(got, asset) :
                    /\ cache' = cleanupProxyBinaries(got, asset, failed)
                    /\ lastRun' = [run EXCEPT !.outcome = "path",
                                              !.path = asset,
                                              !.pruned = TRUE,
                                              !.unlinkOk = failed = {}]

ResolveNormal ==
    \E useBeta \in BOOLEAN, force \in BOOLEAN :
        /\ RunNormal(useBeta, force)
        /\ lastPred' = NoPred
        /\ UNCHANGED <<latest, launcherVars>>

\* isInstalledProxyBetaAndShouldNotBe (363-375) on getInstalledProxy's result
isInstalledProxyBetaAndShouldNotBe(installed, eligible, wantsBeta) ==
    IF installed = NoPath
    THEN FALSE
    ELSE parseProxyFilename(installed).isBeta /\ (~eligible \/ ~wantsBeta)

\* variant: only the version is compared
isProxyVersionStale_versionOnly(installed, useBeta, fetch) ==
    IF installed = NoPath \/ fetch \in {"httpError", "empty"}
    THEN [raised |-> FALSE, stale |-> FALSE, reason |-> "none"]
    ELSE IF fetch = "rejected"
    THEN [raised |-> TRUE, stale |-> FALSE, reason |-> "none"]
    ELSE IF parseProxyFilename(installed).version
                # latest[IF useBeta THEN "beta" ELSE "stable"]
    THEN [raised |-> FALSE, stale |-> TRUE, reason |-> "version"]
    ELSE [raised |-> FALSE, stale |-> FALSE, reason |-> "none"]

\* isProxyVersionStale (381-411) on getInstalledProxy's result and on the
\* answer of the release endpoint; there is no try/catch around fetch
isProxyVersionStale(installed, useBeta, fetch) ==
    IF installed = NoPath
    THEN [raised |-> FALSE, stale |-> FALSE, reason |-> "none"]
    ELSE IF fetch = "rejected"
    THEN [raised |-> TRUE, stale |-> FALSE, reason |-> "none"]
    ELSE IF fetch \in {"httpError", "empty"}
    THEN [raised |-> FALSE, stale |-> FALSE, reason |-> "none"]
    ELSE IF parseProxyFilename(installed).version
                # latest[IF useBeta THEN "beta" ELSE "stable"]
    THEN [raised |-> FALSE, stale |-> TRUE, reason |-> "version"]
    ELSE IF parseProxyFilename(installed).isBeta # useBeta
    THEN [raised |-> FALSE, stale |-> TRUE, reason |-> "track"]
    ELSE [raised |-> FALSE, stale |-> FALSE, reason |-> "none"]

\* run.ts 293-300: the beta check of the startup and the purge it triggers;
\* useBeta is receiveBetaReleases && betaEligible (run.ts 280)
StartupBetaCheck ==
    \E eligible \in BOOLEAN, useBeta \in BOOLEAN,
       installed \in getInstalledProxy(cache) :
        LET r == isInstalledProxyBetaAndShouldNotBe(installed, eligible,
                                                     useBeta)
        IN  /\ useBeta => eligible
            /\ lastPred' = [NoPred EXCEPT
                   !.fn = "beta", !.installed = installed,
                   !.eligible = eligible, !.useBeta = useBeta,
                   !.result = r, !.purged = r]
            /\ IF r
               THEN \E failed \in UnlinkFailures(cache, NoPath) :
                        cache' = cleanupProxyBinaries(cache, NoPath, failed)
               ELSE UNCHANGED cache
            /\ lastRun' = NoRun
            /\ UNCHANGED <<latest, launcherVars>>

\* run.ts 303-309: the staleness check of the startup and the purge it
\* triggers; an exception leaves run()
StartupStaleCheck ==
    \E useBeta \in BOOLEAN, installed \in getInstalledProxy(cache),
       fetch \in FetchOutcomes \ {"noAsset"} :
        LET r == isProxyVersionStale(installed, useBeta, fetch)
        IN  /\ installed = NoPath => fetch = "ok"   \* no request is made
            /\ lastPred' = [NoPred EXCEPT
                   !.fn = "stale", !.installed = installed,
                   !.useBeta = useBeta,
                   !.fetch = IF installed = NoPath THEN "none" ELSE fetch,
                   !.raised = r.raised, !.result = r.stale,
                   !.reason = r.reason, !.purged = r.stale]
            /\ IF r.stale
               THEN \E failed \in UnlinkFailures(cache, NoPath) :
                        cache' = cleanupProxyBinaries(cache, NoPath, failed)
               ELSE UNCHANGED cache
            /\ lastRun' = NoRun
            /\ UNCHANGED <<latest, launcherVars>>

\* a new release becomes the latest of a channel
Publish ==
    \E c \in Channels, v \in Versions :
        /\ v \in LatestVersions[c]
        /\ v # latest[c]
        /\ latest' = [latest EXCEPT ![c] = v]
        /\ lastRun' = NoRun
        /\ lastPred' = NoPred
        /\ UNCHANGED <<cache, launcherVars>>

\* the launcher part at rest; a directory with at most one binary of this
\* platform, a binary of another platform, and possibly a tagged file the
\* program did not write
InitR ==
    /\ proxyProc = Null
    /\ isProxyRunning = FALSE
    /\ isIntentionalShutdown = FALSE
    /\ isAttachedToExisting = FALSE
    /\ attachedPid = Null
    /\ attachedPort = Null
    /\ pidFile = NoFile
    /\ proxyLock = NoFile
    /\ alive = {}
    /\ procPort = [p \in PIDs |-> Null]
    /\ nextPid = 1
    /\ phase = "start"
    /\ reqPort = 25565
    /\ existing = NoData
    /\ cmd = "none"
    /\ waiterProc = Null
    /\ waiterPc = "off"
    /\ exitCode = 0
    /\ pollOn = FALSE
    /\ killPc = "idle"
    /\ hs = "none"
    /\ hsResult = "none"
    /\ timerOn = FALSE
    /\ waitPc = "idle"
    /\ waitPid = Null
    /\ detPc = "idle"
    /\ detPath = "none"
    /\ detPid = Null
    /\ crash = NoCrash
    /\ sigSent = {}
    /\ reqSent = 0
    /\ obs = NoObs
    /\ \E inst \in Binaries \cup {NoPath}, other \in SUBSET {StrayFile} :
        cache = [f \in FileNames |->
                    IF f = inst \/ f \in other \/ f = ForeignFile
                    THEN "big" ELSE "absent"]
    /\ latest \in {l \in [Channels -> Versions] :
                       \A c \in Channels : l[c] \in LatestVersions[c]}
    /\ lastRun = NoRun
    /\ lastPred = NoPred
    /\ AuxAtRest

NextR ==
    \/ ResolveOverride
    \/ ResolveFetchFails
    \/ ResolveOffline
    \/ ResolveNormal
    \/ StartupBetaCheck
    \/ StartupStaleCheck
    \/ Publish

SpecR == InitR /\ [][NextR]_vars

\* ------------------------------------------------ stdout relay of launchProxy
\* proxy.ts 542-557 and the log callback of run() (run.ts 337-348).  A line
\* of the proxy's output is known by what it carries: ordinary text, the
\* ready message ("Proxy running on" or the check-mark tag), one of the two internal
\* markers, or nothing but white space.  The stream hands the lines over in
\* chunks of one or more whole lines.
MaxLines == 3        \* lines the proxy writes in a behaviour
LineKinds == {"plain", "ready", "ign", "uuid", "blank"}
MarkerKinds == {"ign", "uuid"}
Outputs ==
    UNION {[1..n -> LineKinds] : n \in 1..MaxLines}

\* String.prototype.trim on the text of a chunk: white space, and so every
\* blank line, goes from both ends and stays in the middle
RECURSIVE trimStart(_)
trimStart(text) ==
    IF text # <<>> /\ Head(text) = "blank"
    THEN trimStart(Tail(text)) ELSE text
RECURSIVE trimEnd(_)
trimEnd(text) ==
    IF text # <<>> /\ text[Len(text)] = "blank"
    THEN trimEnd(SubSeq(text, 1, Len(text) - 1)) ELSE text
trim(text) == trimEnd(trimStart(text))

\* text.includes(marker) for either marker
includesMarker(text) == \E i \in 1..Len(text) : text[i] \in MarkerKinds

\* payload.includes("Proxy running on") || payload.includes(check mark)
includesReady(payload) == \E i \in 1..Len(payload) : payload[i] = "ready"


\* one turn of the for-await loop: the log events the chunk gives rise to
relayChunk(chunk) ==
    LET text == trim(chunk)
    IN  IF ~includesMarker(text) THEN <<text>> ELSE <<>>

\* the relay reads the next chunk; the callback of run() prints the payload
\* and resolves proxyReadyPromise on the ready message
StdoutChunk ==
    /\ phase \in {"launching", "running"}
    /\ proxyProc # Null
    /\ readPos < Len(stdout)
    /\ \E n \in 1..(Len(stdout) - readPos) :
        LET events == relayChunk(SubSeq(stdout, readPos + 1, readPos + n))
        IN  /\ readPos' = readPos + n
            /\ logged' = logged \o events
            /\ phase' = IF \E i \in 1..Len(events) : includesReady(events[i])
                        THEN "running" ELSE phase
    /\ UNCHANGED <<supVars, fileVars, osVars, reqPort, existing, cmd,
                   killVars, waitVars, detVars, taskVars, outVars, obs,
                   bootVars, stdout, resVars>>

\* launchProxy has just spawned the proxy, which writes some lines
InitO ==
    /\ proxyProc = 1
    /\ isProxyRunning = TRUE
    /\ isIntentionalShutdown = FALSE
    /\ isAttachedToExisting = FALSE
    /\ attachedPid = Null
    /\ attachedPort = Null
    /\ pidFile = NoFile
    /\ proxyLock = NoFile
    /\ alive = {1}
    /\ procPort = [p \in PIDs |-> IF p = 1 THEN 25565 ELSE Null]
    /\ nextPid = 2
    /\ phase = "launching"
    /\ reqPort = 25565
    /\ existing = NoData
    /\ cmd = "none"
    /\ waiterProc = 1
    /\ waiterPc = "waiting"
    /\ exitCode = 0
    /\ pollOn = FALSE
    /\ killPc = "idle"
    /\ hs = "none"
    /\ hsResult = "none"
    /\ timerOn = FALSE
    /\ waitPc = "idle"
    /\ waitPid = Null
    /\ detPc = "idle"
    /\ detPath = "none"
    /\ detPid = Null
    /\ crash = NoCrash
    /\ sigSent = {}
    /\ reqSent = 0
    /\ obs = [NoObs EXCEPT !.bind = "listening", !.resolved = TRUE]
    /\ cache = EmptyCache
    /\ latest = [c \in Channels |-> "1.9.0"]
    /\ lastRun = NoRun
    /\ lastPred = NoPred
    /\ values = NoFlags
    /\ runtimeState = [noUpdate |-> FALSE, forceUpdate |-> FALSE]
    /\ config = DefaultConfig
    /\ perms = {}
    /\ startup = NoStartup
    /\ stdout \in Outputs
    /\ readPos = 0
    /\ logged = <<>>

NextO == StdoutChunk

SpecO == InitO /\ [][NextO]_vars

\* --------------------------------------- entry point, run() and the prompt
\* entitlements.ts 29-37
BetaPerms == {"tester", "partner", "developer", "admin"}
isBetaEligible(userPerms) == userPerms \cap BetaPerms # {}

\* settings.ts 54-78: the keys setConfig writes; for any other key it
\* returns false and leaves the file as it is
WritableKeys == {"proxyPort", "autoUpdate", "enableMsa"}
setConfig(c, key, value) ==
    IF key \in WritableKeys THEN [c EXCEPT ![key] = value] ELSE c

\* checkForUpdates (412-508) as its callers reach it, without --proxy: the
\* release list is fetched first, runtimeState selects the branch
checkForUpdates(useBeta) ==
    \E fetch \in FetchOutcomes :
        IF fetch # "ok"
        THEN /\ RunFetchFails(runtimeState.noUpdate, fetch)
             /\ UNCHANGED cache
        ELSE IF runtimeState.noUpdate
        THEN /\ RunOffline(useBeta)
             /\ UNCHANGED cache
        ELSE RunNormal(useBeta, runtimeState.forceUpdate)

\* auth.ts 225-259: the flags are turned into runtimeState; --force-update
\* together with a skip flag ends the process
MainFlags ==
    /\ phase = "main"
    /\ LET skip == values.noUpdate \/ values.lie
           bad == values.force /\ skip
       IN  /\ runtimeState' =
                [forceUpdate |-> runtimeState.forceUpdate \/ values.force,
                 noUpdate |-> IF ~bad /\ ~values.noUpdate /\ values.lie
                              THEN TRUE ELSE runtimeState.noUpdate]
           /\ phase' = IF bad THEN "exited" ELSE "run"
    /\ UNCHANGED <<supVars, fileVars, osVars, reqPort, existing, cmd,
                   killVars, waitVars, detVars, taskVars, outVars, obs,
                   values, config, perms, startup, relayVars, resVars>>

\* run.ts 279-300: useBeta, the revocation of the setting, and the purge of
\* an installed beta build
RunBetaGate ==
    /\ phase = "run"
    /\ \E installed \in getInstalledProxy(cache) :
        LET betaEligible == isBetaEligible(perms)
            revoke == config.receiveBetaReleases /\ ~betaEligible
            useBeta == config.receiveBetaReleases /\ betaEligible /\ ~revoke
            shouldPurge == isInstalledProxyBetaAndShouldNotBe(
                               installed, betaEligible, useBeta)
        IN  /\ config' = IF revoke
                         THEN setConfig(config, "receiveBetaReleases", FALSE)
                         ELSE config
            /\ startup' = [useBeta |-> useBeta, purged |-> shouldPurge]
            /\ lastPred' = [NoPred EXCEPT
                   !.fn = "beta", !.installed = installed,
                   !.eligible = betaEligible, !.useBeta = useBeta,
                   !.result = shouldPurge, !.purged = shouldPurge]
            /\ IF shouldPurge
               THEN \E failed \in UnlinkFailures(cache, NoPath) :
                        cache' = cleanupProxyBinaries(cache, NoPath, failed)
               ELSE UNCHANGED cache
    /\ phase' = "beta"
    /\ UNCHANGED <<supVars, fileVars, osVars, reqPort, existing, cmd,
                   killVars, waitVars, detVars, taskVars, outVars, obs,
                   values, runtimeState, perms, relayVars, latest, lastRun>>

\* run.ts 303-309: the staleness check and its purge; a rejected request
\* leaves run() and the entry point exits
RunStaleGate ==
    /\ phase = "beta"
    /\ \E installed \in getInstalledProxy(cache),
          fetch \in FetchOutcomes \ {"noAsset"} :
        LET r == isProxyVersionStale(installed, startup.useBeta, fetch)
        IN  /\ installed = NoPath => fetch = "ok"   \* no request is made
            /\ lastPred' = [NoPred EXCEPT
                   !.fn = "stale", !.installed = installed,
                   !.useBeta = startup.useBeta,
                   !.fetch = IF installed = NoPath THEN "none" ELSE fetch,
                   !.raised = r.raised, !.result = r.stale,
                   !.reason = r.reason, !.purged = r.stale]
            /\ startup' = [startup EXCEPT !.purged = @ \/ r.stale]
            /\ phase' = IF r.raised THEN "exited" ELSE "start"
            /\ IF r.stale
               THEN \E failed \in UnlinkFailures(cache, NoPath) :
                        cache' = cleanupProxyBinaries(cache, NoPath, failed)
               ELSE UNCHANGED cache
    /\ UNCHANGED <<supVars, fileVars, osVars, reqPort, existing, cmd,
                   killVars, waitVars, detVars, taskVars, outVars, obs,
                   values, runtimeState, config, perms, relayVars, latest,
                   lastRun>>

\* launchProxy (510-541) called by run() with its useBeta: the port probe,
\* the artifact resolver, and the spawn when the resolver returned a path
LaunchResolved ==
    /\ phase = "checked"
    /\ existing = NoData
    /\ nextPid <= MaxPid
    /\ \E o \in BindOutcomes(reqPort) :
        /\ portProbe(o)
        /\ obs' = [obs EXCEPT !.bind = o, !.resolved = TRUE]
    /\ checkForUpdates(startup.useBeta)
    /\ lastPred' = NoPred
    /\ IF lastRun'.outcome = "path"
       THEN /\ alive' = alive \cup {nextPid}                 \* Bun.spawn
            /\ procPort' = [procPort EXCEPT ![nextPid] = reqPort]
            /\ nextPid' = nextPid + 1
            /\ proxyProc' = nextPid
            /\ isProxyRunning' = TRUE
            /\ isIntentionalShutdown' = FALSE
            /\ isAttachedToExisting' = FALSE
            /\ attachedPid' = Null
            /\ attachedPort' = Null
            /\ waiterProc' = nextPid
            /\ waiterPc' = "waiting"
            /\ phase' = "launching"
       ELSE /\ phase' = "exited"  \* throws; main prints the error, exits 1
            /\ UNCHANGED <<supVars, osVars, waiterProc, waiterPc>>
    /\ UNCHANGED <<fileVars, exitCode, reqPort, existing, cmd, killVars,
                   waitVars, detVars, pollOn, outVars, auxVars, latest>>

\* the `update` command of the prompt (run.ts 209-210, handleUpdate): the
\* channel is read from the configuration; an error is printed and dropped
CmdUpdate ==
    /\ phase = "running"
    /\ cmd = "none"
    /\ checkForUpdates(config.receiveBetaReleases)
    /\ lastPred' = NoPred
    /\ UNCHANGED <<launcherVars, latest>>

\* a user starts the launcher with some flags; a proxy detached by an
\* earlier launcher may still run, and the install directory holds at most
\* one binary of this platform (the one that proxy was started from)
InitW ==
    /\ proxyProc = Null
    /\ isProxyRunning = FALSE
    /\ isIntentionalShutdown = FALSE
    /\ isAttachedToExisting = FALSE
    /\ attachedPid = Null
    /\ attachedPort = Null
    /\ proxyLock = NoFile
    /\ \E detached \in BOOLEAN :
        /\ alive = IF detached THEN {1} ELSE {}
        /\ procPort = [p \in PIDs |->
                          IF detached /\ p = 1 THEN 25565 ELSE Null]
        /\ nextPid = IF detached THEN 2 ELSE 1
        /\ pidFile = IF detached
                     THEN [kind |-> "rec", pid |-> 1, port |-> 25565,
                           controlPort |-> Null]
                     ELSE NoFile
        /\ \E inst \in Binaries \cup {NoPath} :
            /\ detached => inst # NoPath
            /\ cache = [f \in FileNames |->
                           IF f = inst \/ f = ForeignFile
                           THEN "big" ELSE "absent"]
    /\ phase = "main"
    /\ reqPort = 25565
    /\ existing = NoData
    /\ cmd = "none"
    /\ waiterProc = Null
    /\ waiterPc = "off"
    /\ exitCode = 0
    /\ pollOn = FALSE
    /\ killPc = "idle"
    /\ hs = "none"
    /\ hsResult = "none"
    /\ timerOn = FALSE
    /\ waitPc = "idle"
    /\ waitPid = Null
    /\ detPc = "idle"
    /\ detPath = "none"
    /\ detPid = Null
    /\ crash = NoCrash
    /\ sigSent = {}
    /\ reqSent = 0
    /\ obs = NoObs
    /\ latest \in {l \in [Channels -> Versions] :
                       \A c \in Channels : l[c] \in LatestVersions[c]}
    /\ lastRun = NoRun
    /\ lastPred = NoPred
    /\ values \in [noUpdate : BOOLEAN, lie : BOOLEAN, force : BOOLEAN]
    /\ runtimeState = [noUpdate |-> FALSE, forceUpdate |-> FALSE]
    /\ config \in {[DefaultConfig EXCEPT !.receiveBetaReleases = b] :
                       b \in BOOLEAN}
    /\ perms \in {{"standard"}, {"standard", "tester"}}
    /\ startup = NoStartup
    /\ stdout = <<>>
    /\ readPos = 0
    /\ logged = <<>>

NextW ==
    \/ MainFlags
    \/ RunBetaGate
    \/ RunStaleGate
    \/ CheckForExisting
    \/ Attach
    \/ LaunchPortInUse
    \/ LaunchResolved
    \/ ProxyReady
    \/ CmdUpdate

SpecW == InitW /\ [][NextW]_vars

\* ======================================================================
\* Properties
\* ======================================================================

\* C1: kill() has set intentionalShutdown before a shutdown request is
\* written or a termination signal is sent, and the exit waiter raises no
\* crash for an exit of the owned proxy that happened after kill() was
\* called, whatever the exit code.
C1_FlagBeforeTermination ==
    /\ (killPc # "idle" \/ reqSent > 0 \/ sigSent # {}) => isIntentionalShutdown
    /\ crash.src = "exit" => ~obs.exitAfterKill

\* the owned proxy exited non-zero after kill() had signalled it, the exit
\* waiter has run, and no crash was raised
C1_Witness ==
    /\ waiterPc = "done"
    /\ obs.exitAfterKill
    /\ exitCode # 0
    /\ waiterProc \in sigSent
    /\ crash = NoCrash

\* C2: while kill() is in flight no crash notification is emitted, neither
\* by the exit waiter nor by the attach liveness poll.
C2_NoCrashWhileStopping == ~(crash # NoCrash /\ crash.duringKill)

\* C3: once the handshake has been acknowledged with `ok`, kill() sends no
\* termination signal to the attached pid or to the owned handle.
C3_GracefulNoSignal == hsResult = "ack" => sigSent = {}

\* kill() of a tracked proxy returned on the acknowledged path
C3_Witness ==
    /\ killPc = "done"
    /\ hsResult = "ack"
    /\ obs.killTarget # Null
    /\ sigSent = {}

\* C4: without a control port kill() goes straight to the forceful path, and
\* whenever kill() finishes without an acknowledgement (no control port,
\* handshake failed or timed out) it has signalled the attached pid when
\* attached, and otherwise the held process handle when there is one.
C4_FallbackSignalsTracked ==
    [][/\ (killPc = "readLock" /\ killPc' \notin {"readLock", "idle"}
              /\ readProxyLockFile.controlPort = Null) => killPc' = "done"
       /\ (killPc \in {"readLock", "handshake"} /\ killPc' = "done"
              /\ hsResult' # "ack")
           => IF isAttachedToExisting /\ attachedPid # Null
              THEN attachedPid \in sigSent'
              ELSE proxyProc # Null => proxyProc \in sigSent'
      ]_vars

\* the handshake failed and kill() signalled the proxy it tracked
C4_Witness ==
    /\ killPc = "done"
    /\ hsResult = "fail"
    /\ obs.killTarget # Null
    /\ obs.killTarget \in sigSent

\* C5: the handshake always ends with a definite outcome: once its
\* connection is over (error, close, timeout or acknowledgement) the result
\* is acknowledged or failed, never still pending.
C5_HandshakeDefinite == hs = "closed" => hsResult \in {"ack", "fail"}

C7_WaitConfirmsGone ==
    (waitPc = "done" /\ obs.killTarget # Null) => obs.killTarget \notin alive

C10_MatchReturnedUntouched ==
    [][(phase = "start" /\ phase' = "checked") =>
          /\ (pidFile.kind = "rec" /\ pidFile.port = reqPort
                  /\ pidFile.pid \in alive)
              => /\ existing'.kind = "rec"
                 /\ existing'.pid = pidFile.pid
                 /\ existing'.port = pidFile.port
                 /\ UNCHANGED <<pidFile, supVars>>
          /\ pidFile.kind \in {"none", "corrupt"}
              => /\ existing' = NoData
                 /\ UNCHANGED <<pidFile, supVars>>
      ]_vars

\* a matching record of a live proxy was checked and returned
C10_Witness ==
    /\ phase = "checked"
    /\ obs.chkFile.kind = "rec"
    /\ obs.chkAlive
    /\ existing = obs.chkFile
    /\ pidFile = obs.chkFile

\* C11: attach on a live pid puts the supervisor in Running(Attached): the
\* running flag is true, the pid and port are recorded and no native process
\* handle is held.
C11_AttachRunningAttached ==
    [][(phase = "checked" /\ existing # NoData
            /\ isProcessRunning(existing.pid) /\ phase' # phase) =>
          /\ phase' = "running"
          /\ isProxyRunning'
          /\ isAttachedToExisting'
          /\ attachedPid' = existing.pid
          /\ attachedPort' = existing.port
          /\ proxyProc' = Null
      ]_vars

\* the launcher attached to a live proxy found through the lock file
C11_Witness ==
    /\ phase = "running"
    /\ existing # NoData
    /\ isProxyRunning
    /\ isAttachedToExisting
    /\ attachedPid = existing.pid
    /\ attachedPid \in alive
    /\ attachedPort = reqPort
    /\ proxyProc = Null

C13_DetachOwned ==
    [][(LauncherUp /\ detPc = "written" /\ detPc' = "idle"
            /\ detPath = "owned" /\ isProxyRunning /\ proxyProc = detPid) =>
          /\ pidFile' = PidFileData(detPid, reqPort, Null)
          /\ proxyProc' = Null
          /\ ~isProxyRunning'
          /\ ~isAttachedToExisting'
          /\ detPid \notin sigSent'
          /\ reqSent' = 0
      ]_vars

\* an owned proxy was detached and is still running, recorded in the lock file
C13_Witness ==
    /\ phase = "exited"
    /\ cmd = "detach"
    /\ detPc = "idle"
    /\ detPath = "owned"
    /\ detPid \in alive
    /\ waiterProc = detPid
    /\ pidFile = PidFileData(detPid, reqPort, Null)
    /\ proxyProc = Null
    /\ ~isProxyRunning
    /\ sigSent = {}
    /\ reqSent = 0

\* C14: a detach from Running(Attached) writes {pid: attached pid, port} to
\* the launcher's lock file and makes the supervisor idle; the liveness poll,
\* finding the attached state cleared, stops without emitting a crash and
\* without deleting the lock file.
C14_DetachAttached ==
    [][/\ (LauncherUp /\ detPc = "written" /\ detPc' = "idle"
              /\ detPath = "attached") =>
            /\ pidFile' = PidFileData(detPid, reqPort, Null)
            /\ ~isProxyRunning'
            /\ ~isAttachedToExisting'
            /\ attachedPid' = Null
            /\ attachedPort' = Null
            /\ proxyProc' = Null
            /\ crash' = NoCrash
       /\ (LauncherUp /\ pollOn /\ ~pollOn'
              /\ ~(isAttachedToExisting /\ attachedPid # Null)) =>
            /\ crash' = crash
            /\ pidFile' = pidFile
            /\ UNCHANGED supVars
      ]_vars

\* an attached proxy was detached: its record is back in the lock file
C14_Witness ==
    /\ phase = "exited"
    /\ cmd = "detach"
    /\ detPc = "idle"
    /\ detPath = "attached"
    /\ detPid = existing.pid
    /\ pidFile = PidFileData(detPid, reqPort, Null)
    /\ ~isProxyRunning
    /\ ~isAttachedToExisting
    /\ crash = NoCrash

\* C15: detach while the supervisor is idle fails with NothingToDetach: it
\* never starts writing, and the failing call changes neither the launcher's
\* lock file nor the supervisor's state.
C15_DetachIdleFails ==
    [][/\ ~isProxyRunning => ~(detPc = "idle" /\ detPc' = "mkdir")
       /\ (phase = "running" /\ cmd = "none" /\ ~isProxyRunning
              /\ obs'.err # obs.err) =>
            /\ obs'.err = "NothingToDetach"
            /\ UNCHANGED <<pidFile, supVars, detVars, cmd>>
      ]_vars

\* the owned proxy exited with code 0, the prompt went on, and a detach
\* command was refused
C15_Witness ==
    /\ phase = "running"
    /\ obs.err = "NothingToDetach"
    /\ ~isProxyRunning
    /\ waiterPc = "done"
    /\ cmd = "none"

\* C16: for an owned proxy the exit waiter emits a crash notification if and
\* only if isIntentionalShutdown is false when the exit is observed and
\* either the exit code is non-zero or awaiting the exit threw; an exit with
\* code 0 never emits a crash.
C16_CrashIffUnintended ==
    [][(LauncherUp /\ waiterPc = "waiting" /\ waiterPc' = "done") =>
          /\ (crash' # crash) <=>
                 /\ ~isIntentionalShutdown
                 /\ \/ exitCode = Rejected
                    \/ exitCode \in ExitCodes /\ exitCode # 0
          /\ (crash' # crash) =>
                 /\ crash = NoCrash
                 /\ crash'.src = "exit"
                 /\ crash'.pid = waiterProc
          /\ exitCode = 0 => crash' = crash
      ]_vars

\* the waiter saw the rejected exit wait of an unintended exit and reported it
C16_Witness ==
    /\ waiterPc = "done"
    /\ exitCode = Rejected
    /\ ~isIntentionalShutdown
    /\ crash.src = "exit"
    /\ crash.pid = waiterProc

C19_LockGoneAfterKill ==
    (/\ phase = "exited"
     /\ cmd \in {"stop", "sigint"}
     /\ killPc = "done"
     /\ obs.killTarget # Null
     /\ obs.killTarget \notin alive)
        => pidFile = NoFile

\* C20: whenever the loopback probe of launch(port) cannot bind, for any bind
\* error and not only address-in-use, the launch fails with PortInUse, the
\* resolver is not invoked, no process is spawned and the supervisor's state
\* is unchanged.
C20_ProbeFailureStopsLaunch ==
    [][(phase = "checked" /\ existing = NoData /\ phase' # phase
            /\ obs'.bind # "listening") =>
          /\ phase' = "exited"
          /\ obs'.err = "PortInUse"
          /\ ~obs'.resolved
          /\ UNCHANGED <<supVars, osVars, fileVars, taskVars>>
      ]_vars

\* a launch was refused because the probe failed with an error other than
\* address-in-use
C20_Witness ==
    /\ phase = "exited"
    /\ obs.err = "PortInUse"
    /\ obs.bind = "EACCES"
    /\ ~obs.resolved
    /\ ~isProxyRunning
    /\ proxyProc = Null
    /\ waiterPc = "off"

\* C21 (as claimed): waitForStop() called with neither a handle nor an
\* attached pid polls the pid recorded in the launcher's own lock file, and
\* returns at once when that file records none.
C21_WaitPollsLauncherLock ==
    [][(LauncherUp /\ waitPc = "readLock" /\ waitPc' # waitPc) =>
          IF readPidFile.pid # Null
          THEN waitPc' = "pollLock" /\ waitPid' = readPidFile.pid
          ELSE waitPc' = "done"
      ]_vars

\* C21 (amended): waitForStop() called with neither a handle nor an attached
\* pid polls the pid recorded in the proxy's own lock file until that process
\* is dead, and returns at once when that file records none.
C21_WaitPollsProxyLock ==
    [][/\ (LauncherUp /\ waitPc = "readLock" /\ waitPc' # waitPc) =>
            IF readProxyLockFile.pid # Null
            THEN waitPc' = "pollLock" /\ waitPid' = readProxyLockFile.pid
            ELSE waitPc' = "done"
       /\ (LauncherUp /\ waitPc = "pollLock" /\ waitPc' # waitPc) =>
            /\ waitPc' = "done"
            /\ waitPid \notin alive
      ]_vars

\* the wait polls the live pid of the proxy's lock file while the launcher's
\* lock file records nothing
C21_Witness ==
    /\ waitPc = "pollLock"
    /\ proxyProc = Null
    /\ ~isAttachedToExisting
    /\ waitPid = proxyLock.pid
    /\ waitPid \in alive
    /\ pidFile = NoFile

\* ---- claims about checkForUpdates

\* a step of checkForUpdates in normal mode that got past the release
\* metadata
NormalRunStep == lastRun'.mode = "normal" /\ lastRun'.outcome \in {"path", "DownloadFailed"}

C23_NeverReturnsSmallFile ==
    (lastRun.outcome = "path" /\ lastRun.path \in FileNames)
        => cache[lastRun.path] # "small"

\* C23 (amended): in normal mode checkForUpdates downloads again whenever the
\* file at the asset's path is smaller than the minimum size, whatever its
\* name, and the path it returns is that of a file of full size.
C23_NormalRunReplacesSmallFile ==
    [][NormalRunStep =>
          /\ cache[AssetName(lastRun'.useBeta)] = "small" => lastRun'.downloaded
          /\ lastRun'.outcome = "path" =>
                cache'[lastRun'.path] \notin {"absent", "small"}
      ]_vars

\* a small file with the asset's own name was replaced without the force flag
C23_Witness ==
    /\ lastRun.mode = "normal"
    /\ lastRun.outcome = "path"
    /\ lastRun.downloaded
    /\ ~lastRun.force
    /\ lastRun.installed = lastRun.path
    /\ cache[lastRun.path] = "big"

\* C24: in normal mode checkForUpdates downloads exactly when no file is at
\* the asset's path, or the force-update flag is set, or the file there is
\* smaller than the minimum size, or the installed binary's name differs from
\* the asset's name.
C24_DownloadIff ==
    [][NormalRunStep =>
          LET asset == AssetName(lastRun'.useBeta)
          IN  lastRun'.downloaded <=>
                \/ cache[asset] = "absent"
                \/ lastRun'.force
                \/ cache[asset] = "small"
                \/ /\ lastRun'.installed # NoPath
                   /\ lastRun'.installed # asset
      ]_vars

\* a full-size file was at the asset's path, the flag was unset, and the
\* download happened because another binary was found installed
C24_Witness ==
    /\ lastRun.mode = "normal"
    /\ lastRun.outcome = "path"
    /\ lastRun.downloaded
    /\ ~lastRun.force
    /\ lastRun.installed # NoPath
    /\ lastRun.installed # lastRun.path
    /\ lastRun.repeat

\* C25: after a successful run of checkForUpdates the only cached binary of
\* the platform is the one whose path was returned.
C25_OnlyReturnedBinaryRemains ==
    lastRun.outcome = "path" =>
        /\ Cardinality(Tagged(cache)) <= 1
        /\ lastRun.mode # "override" => Tagged(cache) = {lastRun.path}

\* C25 (amended): after a successful run in normal mode the returned binary
\* is cached, and it is the only cached file of the platform unless an
\* unlink of the cleanup failed; the run succeeds either way.
C25_NormalRunPrunes ==
    (lastRun.mode = "normal" /\ lastRun.outcome = "path") =>
        /\ lastRun.pruned
        /\ lastRun.path \in Tagged(cache)
        /\ lastRun.unlinkOk => Tagged(cache) = {lastRun.path}

\* a normal run succeeded although the unlink of a stale binary failed, and
\* the stale binary is still cached
C25_Witness ==
    /\ lastRun.mode = "normal"
    /\ lastRun.outcome = "path"
    /\ ~lastRun.unlinkOk
    /\ \E f \in Tagged(cache) : f # lastRun.path

\* C26: with a custom binary path configured, checkForUpdates returns that
\* path if the file exists and fails if not, and fetches, downloads and
\* prunes nothing.
C26_OverrideBypasses ==
    [][lastRun'.mode = "override" =>
          /\ cache' = cache
          /\ ~lastRun'.fetched
          /\ ~lastRun'.downloaded
          /\ ~lastRun'.pruned
          /\ \/ lastRun'.outcome = "path" /\ lastRun'.path = CustomPath
             \/ lastRun'.outcome = "CustomNotFound" /\ lastRun'.path = NoPath
      ]_vars

\* the custom path was returned while several binaries of the platform were
\* cached
C26_Witness ==
    /\ lastRun.mode = "override"
    /\ lastRun.outcome = "path"
    /\ lastRun.path = CustomPath
    /\ Cardinality(Tagged(cache)) >= 2

\* the metadata request of checkForUpdates failed
MetadataErrors == {"FetchRejected", "FetchFailed", "NoReleaseFound", "NoAssetForPlatform"}

\* C27: with updates disabled checkForUpdates downloads nothing and leaves
\* the cache as it is; it returns a cached file of the platform, or fails
\* with NoCachedBinary when there is none.
C27_OfflineReturnsCached ==
    [][lastRun'.mode = "offline" =>
          /\ cache' = cache
          /\ ~lastRun'.downloaded
          /\ IF Tagged(cache) # {}
             THEN lastRun'.outcome = "path" /\ lastRun'.path \in Tagged(cache)
             ELSE lastRun'.outcome = "NoCachedBinary"
      ]_vars

\* C27 (amended): with updates disabled checkForUpdates downloads nothing and
\* leaves the cache as it is; once the release metadata has been fetched and
\* holds an asset for the platform it returns a cached file of the platform,
\* or fails with NoCachedBinary when there is none; a failed metadata
\* request fails the call.
C27_OfflineAfterMetadata ==
    [][lastRun'.mode = "offline" =>
          /\ cache' = cache
          /\ ~lastRun'.downloaded
          /\ lastRun'.fetched
          /\ \/ lastRun'.outcome \in MetadataErrors
             \/ IF Tagged(cache) # {}
                THEN lastRun'.outcome = "path" /\ lastRun'.path \in Tagged(cache)
                ELSE lastRun'.outcome = "NoCachedBinary"
      ]_vars

\* an offline run returned a cached binary that is not the latest asset
C27_Witness ==
    /\ lastRun.mode = "offline"
    /\ lastRun.outcome = "path"
    /\ lastRun.path \in Tagged(cache)
    /\ lastRun.path # AssetName(lastRun.useBeta)

\* ---- claims about the startup checks

\* C28: when the latest release of the requested channel is known,
\* isProxyVersionStale reports stale exactly when a binary is installed and
\* its version differs from that release or its track differs from the
\* requested one; an installed beta build is stale against the stable
\* channel, and one equal to the latest beta is not stale against beta.
C28_StaleIff ==
    (lastPred.fn = "stale" /\ lastPred.fetch \in {"ok", "none"}) =>
        LET inst == lastPred.installed
            chan == IF lastPred.useBeta THEN "beta" ELSE "stable"
        IN  /\ ~lastPred.raised
            /\ inst = NoPath => ~lastPred.result
            /\ inst # NoPath =>
                 LET p == parseProxyFilename(inst)
                 IN  /\ lastPred.result <=>
                           (p.version # latest[chan] \/ p.isBeta # lastPred.useBeta)
                     /\ (p.isBeta /\ ~lastPred.useBeta) => lastPred.result
                     /\ (p.isBeta /\ lastPred.useBeta /\ p.version = latest["beta"])
                           => ~lastPred.result

\* an installed beta build of the latest stable version was found stale
\* against the stable channel because of its track
C28_Witness ==
    /\ lastPred.fn = "stale"
    /\ lastPred.fetch = "ok"
    /\ lastPred.installed = ProxyFileName(latest["stable"], TRUE, PlatformTag)
    /\ ~lastPred.useBeta
    /\ lastPred.result
    /\ lastPred.reason = "track"

\* C29: a failure of the release request in isProxyVersionStale, an error
\* response or a rejected request, gives not stale and raises nothing.
C29_FetchFailureNotStale ==
    (lastPred.fn = "stale" /\ lastPred.fetch \in {"rejected", "httpError"}) =>
        ~lastPred.raised /\ ~lastPred.result

\* C30: isInstalledProxyBetaAndShouldNotBe returns true exactly when some
\* cached binary of the platform is a beta build and the user is not
\* eligible or has opted out.
C30_BetaCachedIff ==
    [][lastPred'.fn = "beta" =>
          (lastPred'.result <=>
              /\ \E f \in Tagged(cache) :
                    parseProxyFilename(f).ok /\ parseProxyFilename(f).isBeta
              /\ ~lastPred'.eligible \/ ~lastPred'.useBeta)
      ]_vars

\* ---- claims about the entry point and the supervisor as a whole

\* C31: when the `kill` command has run to its exit, the proxy recorded in
\* the launcher's lock file is no longer running.
C31_KillCommandStopsRecorded ==
    (cmd = "kill" /\ phase = "exited" /\ pidFile.kind = "rec")
        => pidFile.pid \notin alive

\* C35: the supervisor is never attached while holding an owned process
\* handle, and the attached flag is set exactly when an attached pid and an
\* attached port are recorded.
C35_OneOwnership ==
    /\ ~(isAttachedToExisting /\ proxyProc # Null)
    /\ isAttachedToExisting <=> (attachedPid # Null /\ attachedPort # Null)
    /\ attachedPid # Null <=> attachedPort # Null

\* an acknowledged kill of an attached proxy has cleared the attached state
\* in a launcher that is still running
C35_Witness ==
    /\ phase = "running"
    /\ killPc = "done"
    /\ hsResult = "ack"
    /\ obs.killTarget # Null
    /\ proxyProc = Null
    /\ ~isAttachedToExisting

\* C36: a launcher waiting for the ready line of the proxy it spawned does
\* not stay there once the exit waiter has seen the proxy exit: with no
\* command in progress it has terminated.
C36_LaunchSettles ==
    ~(/\ phase = "launching"
      /\ cmd = "none"
      /\ waiterPc = "done"
      /\ waiterProc \notin alive)

\* C37: detachProxy has not returned normally, after the process it detaches
\* exited and the exit waiter or the liveness poll finished, leaving a lock
\* file that records the exited process.
C37_DetachLeavesNoDeadRecord ==
    ~(/\ cmd = "detach"
      /\ phase = "exited"
      /\ detPc = "idle"
      /\ obs.exitInDetach
      /\ waiterPc = "done" \/ (detPath = "attached" /\ ~pollOn)
      /\ pidFile.kind = "rec"
      /\ pidFile.pid = detPid
      /\ detPid \notin alive)

\* C38: when the control port killProxy uses came from the lock record of a
\* live process other than the tracked one, killProxy ends with the tracked
\* proxy signalled.
C38_ForeignAckNotTrusted ==
    (/\ killPc = "done"
     /\ obs.killTarget # Null
     /\ obs.ctlForeign)
        => obs.killTarget \in sigSent

\* C40: a normal run of checkForUpdates never returns the path of a file
\* that a failed download left unfinished, whatever its size: it downloads
\* the artifact again first.
C40_NeverReturnsUnfinishedFile ==
    (lastRun.mode = "normal" /\ lastRun.outcome = "path")
        => cache[lastRun.path] \notin {"small", "truncated"}


\* the lines of a sequence of payloads, blank lines left out
RECURSIVE LinesOf(_)
LinesOf(events) ==
    IF events = <<>> THEN <<>>
    ELSE SelectSeq(Head(events), LAMBDA l : l # "blank") \o LinesOf(Tail(events))

\* C34: once the relay has read all of the proxy's output, the lines it
\* emitted as log events are exactly the output lines that carry no
\* internal marker, in their order, however the lines came in chunks.
C34_RelayFiltersLines ==
    readPos = Len(stdout) =>
        LinesOf(logged) =
            SelectSeq(stdout, LAMBDA l : l \notin MarkerKinds \cup {"blank"})


\* C32: a launcher started with --no-update resolves the binary at startup
\* in offline mode and downloads nothing.
C32_NoUpdateSkipsDownload ==
    (values.noUpdate /\ phase \in {"launching", "exited"}
        /\ lastRun.mode # "none") =>
        (lastRun.mode = "offline" /\ ~lastRun.downloaded)

\* C33: a startup that attached to a live proxy has deleted no cached
\* binary, has downloaded none and has spawned no process.
C33_AttachTouchesNoBinary ==
    (phase = "running" /\ isAttachedToExisting) =>
        (~startup.purged /\ ~obs.resolved /\ proxyProc = Null)

\* C39: no call of the resolver downloads a binary of the beta channel for
\* a user who is not beta-eligible.
C39_NoBetaForIneligible ==
    (lastRun.useBeta /\ lastRun.downloaded) => isBetaEligible(perms)

====
